---- MODULE Spec2Model ----
(***************************************************************************)
(* A model of the retrieval-augmented-generation pipeline of               *)
(* sci-paper-rag: the conversation thread manager (one, and two over one   *)
(* storage), the vector retrieval, the document ingestion with its         *)
(* embedding batcher, the chunker (as a function, and loop step by loop    *)
(* step), the prompt assembly, the stream relay, the chat page with its    *)
(* Clear button, and the settings endpoint.                                *)
(*                                                                         *)
(* Each component has its own specification (SpecThread, SpecRetrieve,     *)
(* ...) over the same variables; a component's specification leaves the    *)
(* variables of the other components at their idle values.                 *)
(***************************************************************************)
EXTENDS Integers, Sequences, FiniteSets, TLC

VARIABLES
    \* ---- ChatThreadManager (rag-admin.ts) ----
    thread,      \* this.thread: [id, messages]
    stored,      \* localStorage[THREAD_STORAGE_KEY]
    base,        \* history: the messages the thread held after the last load or clear
    appended,    \* history: the messages appended since the last load or clear
    clock,       \* Date.now(): advanced by every operation
    nextId,      \* source of fresh thread ids (generateThreadId)
    usedIds,     \* history: the ids the manager's thread has had
    failedWrites \* history: the writes storage has rejected

threadVars == <<thread, stored, base, appended, clock, nextId, usedIds, failedWrites>>

VARIABLES
    \* ---- vector store and retrieval (pdf_chunks, match_*_pdf_chunks) ----
    store,       \* public.pdf_chunks, in insertion order
    request,     \* the last retrieval request (at: the rows stored when it was
                 \* served), NoRequest before the first
    result       \* the rows the last retrieval returned, in the order returned

retrVars == <<store, request, result>>

VARIABLES
    \* ---- PythonPDFProcessor: one document's ingestion ----
    procPc,      \* where processUserPDF stands
    chunks,      \* processingResult.data.chunks (chunk ids, in order)
    batchStart,  \* i of generateEmbeddings' loop
    embeddings,  \* the embeddings array of generateEmbeddings
    embResult,   \* what generateEmbeddings returned, NoResult before
    sent,        \* history: the provider calls made, [start, ok]
    docStatus,   \* user_documents.processing_status
    docRows      \* the pdf_chunks rows inserted for the document

procVars == <<procPc, chunks, batchStart, embeddings, embResult, sent, docStatus, docRows>>

VARIABLES
    \* ---- /api/rag-chat: prompt assembly ----
    chatIn,      \* the inputs of buildMessagesWithContext, NoChat before a request
    messages     \* the message list built for the generation backend

asmVars == <<chatIn, messages>>

VARIABLES
    \* ---- /api/rag-chat stream relay and the client's reader ----
    backend,     \* the generation stream: "streaming", "ended" or "errored"
    emitted,     \* history: the text deltas the backend emitted, in order
    wire,        \* bytes of openaiRes.body not yet handed to the 'data' handler
    written,     \* the res.write calls of the handler, in order
    resEnded,    \* res.end() was called
    readPos,     \* how many writes the client's reader has read
    fullText,    \* fullText of fetchAssistantAnswer
    outcome,     \* what the client appended to the thread, NoOutcome before
    cancelled,   \* the caller has gone (closed the page, dropped the connection)
    handled      \* history: the 'data' events the handler has processed

relayVars == <<backend, emitted, wire, written, resEnded, readPos, fullText, outcome,
               cancelled, handled>>

VARIABLES
    \* ---- chunkText (the ingestion script's chunker) ----
    chunkIn,     \* the arguments of a chunkText call, NoChunking before it
    chunkOut     \* the chunks the call returned

chunkVars == <<chunkIn, chunkOut>>

VARIABLES
    \* ---- two ChatThreadManagers (two tabs) over one localStorage ----
    tabs,        \* this.thread of each manager
    shared,      \* localStorage[THREAD_STORAGE_KEY], common to both tabs
    tabAppended, \* history: the messages each manager appended since it loaded
    lastWriter   \* history: the manager that wrote localStorage last, 0 for none

tabVars == <<tabs, shared, tabAppended, lastWriter>>

VARIABLES
    \* ---- /api/user-rag-settings: one tenant's settings row ----
    settingsRow, \* the tenant's row of user_rag_settings, NoRow before the first save
    settingsReq, \* the body of the last POST, NoBody before the first
    settingsStatus \* the HTTP status of the last POST, 0 before the first

setVars == <<settingsRow, settingsReq, settingsStatus>>

VARIABLES
    \* ---- chunkText, one iteration of its loop at a time ----
    loopArgs,    \* words, chunkSize and overlap of the call, NoChunking before it
    loopPc,      \* "idle", "looping" or "returned"
    loopI,       \* i of the for loop
    loopChunks,  \* the chunks array
    loopIters    \* history: the iterations run so far

loopVars == <<loopArgs, loopPc, loopI, loopChunks, loopIters>>

VARIABLES
    \* ---- RagAIAssistantHero: questions, answers and the Clear button ----
    convThread,  \* chatThreadManager's thread; a message carries conv, the id of
                 \* the thread its question was asked in (history)
    convStored,  \* localStorage[THREAD_STORAGE_KEY]
    convNextId,  \* the next thread id generateThreadId gives
    isLoading,   \* the component's isLoading state
    inFlight,    \* the request fetchAssistantAnswer awaits, NoFlight when none
    asked        \* history: the questions asked so far

convVars == <<convThread, convStored, convNextId, isLoading, inFlight, asked>>

vars == <<threadVars, retrVars, procVars, asmVars, relayVars, chunkVars,
         tabVars, setVars, loopVars, convVars>>

\* Frames: what an action of one component leaves alone.
ThreadOnly == UNCHANGED <<retrVars, procVars, asmVars, relayVars, chunkVars,
                           tabVars, setVars, loopVars, convVars>>
RetrOnly == UNCHANGED <<threadVars, procVars, asmVars, relayVars, chunkVars,
                         tabVars, setVars, loopVars, convVars>>
ProcOnly == UNCHANGED <<threadVars, retrVars, asmVars, relayVars, chunkVars,
                         tabVars, setVars, loopVars, convVars>>
AsmOnly == UNCHANGED <<threadVars, retrVars, procVars, relayVars, chunkVars,
                        tabVars, setVars, loopVars, convVars>>
RelayOnly == UNCHANGED <<threadVars, retrVars, procVars, asmVars, chunkVars,
                          tabVars, setVars, loopVars, convVars>>
ChunkOnly == UNCHANGED <<threadVars, retrVars, procVars, asmVars, relayVars,
                          tabVars, setVars, loopVars, convVars>>
TabOnly == UNCHANGED <<threadVars, retrVars, procVars, asmVars, relayVars,
                        chunkVars, setVars, loopVars, convVars>>
SettingsOnly == UNCHANGED <<threadVars, retrVars, procVars, asmVars,
                             relayVars, chunkVars, tabVars, loopVars, convVars>>
LoopOnly == UNCHANGED <<threadVars, retrVars, procVars, asmVars, relayVars,
                         chunkVars, tabVars, setVars, convVars>>
ConvOnly == UNCHANGED <<threadVars, retrVars, procVars, asmVars, relayVars,
                         chunkVars, tabVars, setVars, loopVars>>

Min(a, b) == IF a < b THEN a ELSE b
Max(a, b) == IF a > b THEN a ELSE b

\* The last n elements of s: Array.prototype.slice(-n) for n > 0.
LastN(s, n) == SubSeq(s, Max(1, Len(s) - n + 1), Len(s))

(***************************************************************************)
(* ChatThreadManager                                                       *)
(***************************************************************************)
MAX_MESSAGES == 50

\* Operations performed on one manager before the model stops it.
MaxOps == 53
\* How far beyond MAX_MESSAGES a thread found in storage may reach.
StoredExtra == 2

\* The message an operation at time t adds; the chat client alternates the
\* user's question and the assistant's answer.  Timestamps make messages
\* distinct.
Message(role, t) == [role |-> role, content |-> t, timestamp |-> t]

RoleAt(t) == IF t % 2 = 1 THEN "user" ELSE "assistant"

\* A thread written by an earlier session: n messages with timestamps
\* before this session's clock.
OldMessages(n) == [i \in 1..n |-> Message(RoleAt(i), i - n)]

StoredThread(id, msgs) == [kind |-> "thread", id |-> id, messages |-> msgs]

\* What localStorage may hold under the key when the page loads.
\*   null        getItem returns null (or the empty string)
\*   unparsable  JSON.parse throws
\*   nonobject   parses to a falsy value or a value without .messages
\*   notarray    an object whose .messages is not an array
\*   thread      an object with a .messages array
\* The entries of a stored .messages array are either messages or, in
\* MalformedMessages, an object that lacks content and timestamp.
StoredLens == {0, 1, 2, MAX_MESSAGES - 1, MAX_MESSAGES}
                 \cup (MAX_MESSAGES + 1 .. MAX_MESSAGES + StoredExtra)

MalformedMessages == <<[role |-> "user"]>>

StoredValues ==
    {[kind |-> k] : k \in {"null", "unparsable", "nonobject", "notarray"}}
        \cup {StoredThread(0, OldMessages(n)) : n \in StoredLens}
        \cup {StoredThread(0, MalformedMessages)}

generateThreadId(n) == n

\* loadThread: the stored value when it parses to an object with a
\* messages array, otherwise a new empty thread with id this.threadId.
loadThread(s, threadId) ==
    IF s.kind = "thread"
    THEN [id |-> s.id, messages |-> s.messages]
    ELSE [id |-> threadId, messages |-> <<>>]

\* saveThread: what it hands to localStorage.setItem,
\* JSON.stringify(this.thread)
saveThread(t) == StoredThread(t.id, t.messages)

\* localStorage.setItem inside saveThread's try: the value replaces what is
\* stored (ok), or setItem throws (quota exceeded, storage disabled),
\* saveThread only warns and what is stored stays.
setItem(current, value, ok) == IF ok THEN value ELSE current

\* Writes of one manager that storage rejects before the model lets every
\* later write through.
MaxFailedWrites == 1

\* A limit that keeps the oldest MAX_MESSAGES messages: slice(0, MAX_MESSAGES).
addMessageResult_keepOldest(msgs, m) ==
    LET pushed == Append(msgs, m)
    IN  IF Len(pushed) > MAX_MESSAGES THEN SubSeq(pushed, 1, MAX_MESSAGES) ELSE pushed

\* The messages of addMessage after the push and the length limit.
addMessageResult(msgs, m) ==
    LET pushed == Append(msgs, m)
    IN  IF Len(pushed) > MAX_MESSAGES THEN LastN(pushed, MAX_MESSAGES) ELSE pushed

getMessages == thread.messages

AddMessage ==
    /\ clock <= MaxOps
    /\ LET m == Message(RoleAt(clock), clock)
           t == [thread EXCEPT !.messages = addMessageResult(thread.messages, m)]
       IN  /\ thread' = t
           /\ \E ok \in {b \in BOOLEAN : b \/ failedWrites < MaxFailedWrites} :
                 /\ stored' = setItem(stored, saveThread(t), ok)
                 /\ failedWrites' = IF ok THEN failedWrites ELSE failedWrites + 1
           /\ appended' = Append(appended, m)
    /\ clock' = clock + 1
    /\ UNCHANGED <<base, nextId, usedIds>>
    /\ ThreadOnly

ClearThread ==
    /\ clock <= MaxOps
    /\ LET t == [id |-> generateThreadId(nextId), messages |-> <<>>]
       IN  /\ thread' = t
           /\ \E ok \in {b \in BOOLEAN : b \/ failedWrites < MaxFailedWrites} :
                 /\ stored' = setItem(stored, saveThread(t), ok)
                 /\ failedWrites' = IF ok THEN failedWrites ELSE failedWrites + 1
           /\ usedIds' = usedIds \cup {t.id}
    /\ nextId' = nextId + 1
    /\ base' = <<>>
    /\ appended' = <<>>
    /\ clock' = clock + 1
    /\ ThreadOnly

(***************************************************************************)
(* Vector store and retrieval                                              *)
(*                                                                         *)
(* An embedding is a vector; the model uses two dimensions and small       *)
(* integer components.  pgvector's a <=> b is the cosine distance          *)
(* 1 - cos(a, b); the model compares cosines exactly, by cross             *)
(* multiplication of their squares (all components are >= 0, so every      *)
(* cosine is >= 0).  Thresholds are in hundredths (0.7 is 70).             *)
(***************************************************************************)
\* A NULL embedding: the empty vector.
NULL == <<>>
NoRequest == [via |-> "none"]

Tenants == {"T", "U"}
Vectors == {<<1, 0>>, <<0, 1>>, <<1, 1>>}
QueryVectors == {<<1, 0>>, <<1, 1>>}
\* Rows the model lets pdf_chunks hold.
MaxRows == 2

DEFAULT_MATCH_COUNT == 5
DEFAULT_MATCH_THRESHOLD == 70
MatchCounts == {1, 2, DEFAULT_MATCH_COUNT}
MatchThresholds == {DEFAULT_MATCH_THRESHOLD, 90}

Dot(a, b) == a[1] * b[1] + a[2] * b[2]
Norm2(a) == Dot(a, a)

\* cos(a, q) > cos(b, q), that is (a <=> q) < (b <=> q)
Closer(a, b, q) == Dot(a, q) * Dot(a, q) * Norm2(b) > Dot(b, q) * Dot(b, q) * Norm2(a)

\* 1 - (a <=> q) > th / 100
SimilarityAbove(a, q, th) ==
    10000 * Dot(a, q) * Dot(a, q) > th * th * Norm2(a) * Norm2(q)

\* ORDER BY pc.embedding <=> q: every order of the rows by ascending
\* distance; rows at the same distance come in an order the query does not
\* fix.
OrderByDistance(rows, q) ==
    LET n == Cardinality(rows)
    IN  {r \in [1..n -> rows] :
            /\ \A i, j \in 1..n : i # j => r[i] # r[j]
            /\ \A i \in 1..n : \A j \in i + 1..n : ~Closer(r[j].embedding, r[i].embedding, q)}

Limit(r, k) == SubSeq(r, 1, Min(k, Len(r)))

Rows(tbl) == {tbl[i] : i \in 1..Len(tbl)}

\* supabase-schema.sql: every row with an embedding above the threshold.
match_pdf_chunks(tbl, q, match_count, match_threshold) ==
    LET hits == {pc \in Rows(tbl) :
                    /\ pc.embedding # NULL
                    /\ SimilarityAbove(pc.embedding, q, match_threshold)}
    IN  {Limit(r, match_count) : r \in OrderByDistance(hits, q)}

\* The scoped search without its WHERE pc.user_id = p_user_id.
match_user_pdf_chunks_unscoped(tbl, p_user_id, q, p_match_count, p_match_threshold) ==
    match_pdf_chunks(tbl, q, p_match_count, p_match_threshold)

\* supabase-schema-multi-tenant.sql: the same, among the rows of p_user_id.
match_user_pdf_chunks(tbl, p_user_id, q, p_match_count, p_match_threshold) ==
    LET hits == {pc \in Rows(tbl) :
                    /\ pc.user_id = p_user_id
                    /\ pc.embedding # NULL
                    /\ SimilarityAbove(pc.embedding, q, p_match_threshold)}
    IN  {Limit(r, p_match_count) : r \in OrderByDistance(hits, q)}

\* storeChunksAndEmbeddings / upload: a tenant's chunk is inserted, with its
\* embedding or without one.
InsertChunk ==
    /\ Len(store) < MaxRows
    /\ \E u \in Tenants, e \in Vectors \cup {NULL} :
          store' = Append(store, [id |-> Len(store) + 1, user_id |-> u, embedding |-> e])
    /\ UNCHANGED <<request, result>>
    /\ RetrOnly

\* A call of the user-scoped search function.
MatchUserPdfChunks ==
    \E u \in Tenants, q \in QueryVectors, k \in MatchCounts, th \in MatchThresholds :
        /\ request' = [via |-> "match_user_pdf_chunks", scope |-> u, query |-> q,
                       top_k |-> k, threshold |-> th, at |-> Len(store)]
        /\ result' \in match_user_pdf_chunks(store, u, q, k, th)
        /\ UNCHANGED store
        /\ RetrOnly

\* POST /api/rag-retrieve {query}, sent by the chat endpoint for the
\* question of tenant u: the handler embeds the query and calls
\* rpc/match_pdf_chunks with query_embedding and match_count 5.
RagRetrieve ==
    \E u \in Tenants, q \in QueryVectors :
        /\ request' = [via |-> "rag-retrieve", scope |-> u, query |-> q,
                       top_k |-> DEFAULT_MATCH_COUNT, threshold |-> DEFAULT_MATCH_THRESHOLD,
                       at |-> Len(store)]
        /\ result' \in match_pdf_chunks(store, q, DEFAULT_MATCH_COUNT, DEFAULT_MATCH_THRESHOLD)
        /\ UNCHANGED store
        /\ RetrOnly

(***************************************************************************)
(* Document ingestion: the upload handler, processUserPDF and             *)
(* generateEmbeddings                                                      *)
(*                                                                         *)
(* A chunk is named by its chunk id; the provider's embedding of a chunk's *)
(* text is EmbeddingOf(chunk).  The provider answers a batch with one      *)
(* item per input, or throws.                                              *)
(***************************************************************************)
batchSize == 10
\* Chunks of the largest document the model ingests.
MaxChunks == 25

NoResult == [returned |-> FALSE]

\* How many chunks process_pdf.py returns for a document: none when the
\* PDF has no extractable text.
ExtractedChunkCounts == 0..MaxChunks

EmbeddingOf(c) == [text_of |-> c]

\* chunks.slice(i, i + batchSize), i counted from 0
Batch(cs, i) == SubSeq(cs, i + 1, Min(i + batchSize, Len(cs)))

\* What the provider answers for a batch: one item per input, each with
\* the index of its input (counted from 0) and that input's embedding.
\* The order of the items is the provider's; the model lets it answer in
\* input order or in reverse order.
InOrder(batch) == [k \in 1..Len(batch) |-> [index |-> k - 1, embedding |-> EmbeddingOf(batch[k])]]
Reversed(items) == [k \in 1..Len(items) |-> items[Len(items) + 1 - k]]
Responses(batch) == {InOrder(batch), Reversed(InOrder(batch))}

\* The entries generateEmbeddings pushes for a batch the provider answered:
\* batch.forEach((chunk, batchIndex) => push {chunk, response.data[batchIndex]})
BatchEmbeddings(batch, response) ==
    [k \in 1..Len(batch) |-> [chunk |-> batch[k], embedding |-> response[k].embedding]]

\* The result of generateEmbeddings as its caller reads it: the embeddings
\* of a successful call; a failed call returns {success: false, error} and
\* neither embeddings nor a list of failed chunks.
ReturnedEmbeddings(r) == IF r.success THEN r.embeddings ELSE <<>>
ReturnedFailedChunkRefs(r) == <<>>

\* updateProcessingStatus and updateDocumentCompletion: the new value of
\* processing_status.  An update the database rejects is logged and the
\* caller goes on (ok = FALSE: the status stays what it was).
updateProcessingStatus(current, status, ok) == IF ok THEN status ELSE current
updateDocumentCompletion(current, ok) == IF ok THEN "completed" ELSE current

\* The upload handler, after it created the record: new PythonPDFProcessor()
\* throws (initializeClients: a missing environment variable); the handler
\* logs the error and answers 200, processUserPDF is never called.
ProcessorSetupThrows ==
    /\ procPc = "idle"
    /\ procPc' = "notstarted"
    /\ UNCHANGED <<chunks, batchStart, embeddings, embResult, sent, docStatus, docRows>>
    /\ ProcOnly

\* The upload handler calls processUserPDF, which first records
\* 'processing'.
StartProcessing ==
    /\ procPc = "idle"
    /\ \E ok \in BOOLEAN : docStatus' = updateProcessingStatus(docStatus, "processing", ok)
    /\ procPc' = "extracting"
    /\ UNCHANGED <<chunks, batchStart, embeddings, embResult, sent, docRows>>
    /\ ProcOnly

\* downloadPDF or runPythonProcessing reports a failure: processUserPDF
\* throws and its catch records 'failed'.
ExtractionFails ==
    /\ procPc = "extracting"
    /\ \E ok \in BOOLEAN : docStatus' = updateProcessingStatus(docStatus, "failed", ok)
    /\ procPc' = "done"
    /\ UNCHANGED <<chunks, batchStart, embeddings, embResult, sent, docRows>>
    /\ ProcOnly

\* The Python script succeeds with the document's chunks, none for a PDF
\* without text; generateEmbeddings starts.
Extracted ==
    /\ procPc = "extracting"
    /\ \E n \in ExtractedChunkCounts : chunks' = [k \in 1..n |-> k]
    /\ procPc' = "embedding"
    /\ batchStart' = 0
    /\ embeddings' = <<>>
    /\ UNCHANGED <<embResult, sent, docStatus, docRows>>
    /\ ProcOnly

\* One pass of the loop: the provider answers the batch.
EmbedBatch ==
    /\ procPc = "embedding"
    /\ batchStart < Len(chunks)
    /\ \E response \in Responses(Batch(chunks, batchStart)) :
          embeddings' = embeddings \o BatchEmbeddings(Batch(chunks, batchStart), response)
    /\ sent' = Append(sent, [start |-> batchStart, ok |-> TRUE])
    /\ batchStart' = batchStart + batchSize
    /\ UNCHANGED <<procPc, chunks, embResult, docStatus, docRows>>
    /\ ProcOnly

\* One pass of the loop: openai.embeddings.create throws; the catch around
\* the loop returns {success: false, error}.
EmbedBatchThrows ==
    /\ procPc = "embedding"
    /\ batchStart < Len(chunks)
    /\ sent' = Append(sent, [start |-> batchStart, ok |-> FALSE])
    /\ embResult' = [returned |-> TRUE, success |-> FALSE]
    /\ procPc' = "embedded"
    /\ UNCHANGED <<chunks, batchStart, embeddings, docStatus, docRows>>
    /\ ProcOnly

\* The loop ends: {success: true, data: {embeddings}}.
EmbedReturn ==
    /\ procPc = "embedding"
    /\ batchStart >= Len(chunks)
    /\ embResult' = [returned |-> TRUE, success |-> TRUE, embeddings |-> embeddings]
    /\ procPc' = "embedded"
    /\ UNCHANGED <<chunks, batchStart, embeddings, sent, docStatus, docRows>>
    /\ ProcOnly

\* processUserPDF after a failed generateEmbeddings: it throws, and its
\* catch records 'failed'.
EmbeddingsFailed ==
    /\ procPc = "embedded"
    /\ ~embResult.success
    /\ \E ok \in BOOLEAN : docStatus' = updateProcessingStatus(docStatus, "failed", ok)
    /\ procPc' = "done"
    /\ UNCHANGED <<chunks, batchStart, embeddings, embResult, sent, docRows>>
    /\ ProcOnly

\* processUserPDF after a successful generateEmbeddings:
\* storeChunksAndEmbeddings inserts one row per embedding, then
\* updateDocumentCompletion records 'completed'; a failed insert throws
\* and the catch records 'failed'.
StoreChunks ==
    /\ procPc = "embedded"
    /\ embResult.success
    /\ \E inserted \in BOOLEAN, ok \in BOOLEAN :
          IF inserted
          THEN /\ docRows' = [k \in 1..Len(embResult.embeddings) |->
                                [chunk_id |-> embResult.embeddings[k].chunk,
                                 embedding |-> embResult.embeddings[k].embedding]]
               /\ docStatus' = updateDocumentCompletion(docStatus, ok)
          ELSE /\ docRows' = docRows
               /\ docStatus' = updateProcessingStatus(docStatus, "failed", ok)
    /\ procPc' = "done"
    /\ UNCHANGED <<chunks, batchStart, embeddings, embResult, sent>>
    /\ ProcOnly

(***************************************************************************)
(* /api/rag-chat: buildMessagesWithContext                                 *)
(*                                                                         *)
(* A text is a record with its size in tokens; a message content is the    *)
(* sequence of the texts the template string concatenates.                 *)
(***************************************************************************)
MAX_TOKENS == 4000
\* history.slice(-10)
HISTORY_LIMIT == 10

\* getThreadForAPI: slice(-20)
MAX_CONTEXT_MESSAGES == 20

\* Messages of the longest thread a question is asked in.
MaxHistory == 22
\* Chunks the retrieval hands to the chat handler (match_count is 5).
MaxContextChunks == 5
\* Token sizes of a history message, and of a chunk.
MessageSizes == {50, 500}
CHUNK_TOKENS == 300

NoChat == [present |-> FALSE]

Text(kind, id, tokens) == [kind |-> kind, id |-> id, tokens |-> tokens]

SystemPromptText == Text("system_prompt", 0, 20)
UserInstructionText == Text("user_instruction", 0, 30)
QueryText(n) == Text("query", n, 20)
ContextLabel == Text("literal", "Context:", 2)
QuestionLabel == Text("literal", "Question:", 2)

\* `Chunk ${i + 1} (${c.filename}):\n${c.chunk_text}` for the chunk at
\* 0-based position i0 of contextChunks.
ChunkEntry(i0, c) ==
    [kind |-> "chunk", index |-> i0 + 1, source |-> c.filename,
     text |-> c.chunk_text, tokens |-> c.chunk_text.tokens + 4]

\* history.map(msg => ({role: msg.role, content: msg.content}))
prepareConversationHistory(history) ==
    [k \in 1..Len(history) |-> [role |-> history[k].role, content |-> <<history[k].content>>]]

\* The whole list cut to its last HISTORY_LIMIT + 1 entries.
buildMessagesWithContext_cutAll(systemPrompt, contextChunks, userQuery, userInstruction, history) ==
    LET context == [k \in 1..Len(contextChunks) |-> ChunkEntry(k - 1, contextChunks[k])]
        currentPrompt == <<userInstruction, ContextLabel>> \o context \o <<QuestionLabel, userQuery>>
    IN  LastN(<<[role |-> "system", content |-> <<systemPrompt>>]>>
                  \o prepareConversationHistory(history)
                  \o <<[role |-> "user", content |-> currentPrompt]>>,
              HISTORY_LIMIT + 1)

buildMessagesWithContext(systemPrompt, contextChunks, userQuery, userInstruction, history) ==
    LET recentHistory == LastN(history, HISTORY_LIMIT)
        context == [k \in 1..Len(contextChunks) |-> ChunkEntry(k - 1, contextChunks[k])]
        currentPrompt == <<userInstruction, ContextLabel>> \o context \o <<QuestionLabel, userQuery>>
    IN  <<[role |-> "system", content |-> <<systemPrompt>>]>>
            \o prepareConversationHistory(recentHistory)
            \o <<[role |-> "user", content |-> currentPrompt]>>

RECURSIVE SumTokens(_)
SumTokens(parts) ==
    IF parts = <<>> THEN 0 ELSE Head(parts).tokens + SumTokens(Tail(parts))

RECURSIVE TotalTokens(_)
TotalTokens(msgs) ==
    IF msgs = <<>> THEN 0 ELSE SumTokens(Head(msgs).content) + TotalTokens(Tail(msgs))

\* this.thread.messages.slice(-20)
getThreadForAPI(msgs) == LastN(msgs, MAX_CONTEXT_MESSAGES)

\* fetchAssistantAnswer(userInput) on a thread of h earlier messages: the
\* user's message is added to the thread, then the request
\* POST /api/rag-chat {query: userInput, history: getThreadForAPI()} is
\* sent; the handler has the retrieved chunks and the prompt templates.
\* chatIn.thread is the client's thread when the request is sent.
ChatRequest ==
    /\ ~chatIn.present
    /\ \E h \in 0..MaxHistory, size \in MessageSizes, c \in 0..MaxContextChunks :
          LET userInput == QueryText(h + 1)
              earlier == [k \in 1..h |->
                            [role |-> RoleAt(k), content |-> Text("message", k, size),
                             timestamp |-> k]]
              userMessage == [role |-> "user", content |-> userInput, timestamp |-> h + 1]
              threadMessages == addMessageResult(earlier, userMessage)
          IN  chatIn' = [present |-> TRUE,
                         query |-> userInput,
                         thread |-> threadMessages,
                         history |-> getThreadForAPI(threadMessages),
                         chunks |-> [k \in 1..c |->
                                        [filename |-> k, chunk_text |-> Text("chunk_text", k, CHUNK_TOKENS)]],
                         systemPrompt |-> SystemPromptText,
                         userInstruction |-> UserInstructionText]
    /\ UNCHANGED messages
    /\ AsmOnly

\* The handler builds the messages it sends to the generation backend.
BuildMessages ==
    /\ chatIn.present
    /\ messages = <<>>
    /\ messages' = buildMessagesWithContext(chatIn.systemPrompt, chatIn.chunks, chatIn.query,
                                            chatIn.userInstruction, chatIn.history)
    /\ UNCHANGED chatIn
    /\ AsmOnly

(***************************************************************************)
(* /api/rag-chat: the stream relay, and the reader of fetchAssistantAnswer *)
(*                                                                         *)
(* The backend answers with server-sent events, one line                   *)
(*     data: {"choices":[{"delta":{"content":"..."}}]}                     *)
(* per text delta and a last line  data: [DONE].  The model writes a line  *)
(* as symbols: the prefix "data: ", the JSON text in two halves, and the   *)
(* line break.  openaiRes.body hands the bytes to the 'data' handler in    *)
(* chunks whose boundaries the transport chooses.  A text is the sequence  *)
(* of its deltas.                                                          *)
(***************************************************************************)
\* Text deltas of the longest answer the model streams.
MaxDeltas == 3

NoOutcome == [kind |-> "none"]
ERROR_NOTICE == "Sorry, there was an error getting a response from the assistant."
\* The body of the handler's 500 answer (the text deltas are 1, 2, ...).
ERROR_PAYLOAD == 0

Prefix == [t |-> "data: "]
LineBreak == [t |-> "\n"]
DoneMark == [t |-> "[DONE]"]
Json(d, half) == [t |-> "json", delta |-> d, half |-> half]

DeltaEvent(d) == <<Prefix, Json(d, 1), Json(d, 2), LineBreak>>
DoneEvent == <<Prefix, DoneMark, LineBreak>>

\* chunk.toString().split('\n')
RECURSIVE Split(_, _, _)
Split(rest, line, lines) ==
    IF rest = <<>> THEN Append(lines, line)
    ELSE IF Head(rest) = LineBreak THEN Split(Tail(rest), <<>>, Append(lines, line))
    ELSE Split(Tail(rest), Append(line, Head(rest)), lines)

\* JSON.parse(data) succeeds on a whole JSON text; its delta content.
Parses(data) ==
    /\ Len(data) = 2
    /\ data[1].t = "json" /\ data[2].t = "json"
    /\ data[1].half = 1 /\ data[2].half = 2
    /\ data[1].delta = data[2].delta

\* What the handler writes for one line: the content of a 'data: ' line
\* that parses, nothing for [DONE], for a line that does not start with
\* 'data: ' and for a line whose JSON.parse throws.
LineWrites(line) ==
    IF line # <<>> /\ Head(line) = Prefix
    THEN LET data == Tail(line)
         IN  IF data = <<DoneMark>> THEN <<>>
             ELSE IF Parses(data) THEN <<data[1].delta>>
             ELSE <<>>
    ELSE <<>>

\* A handler that keeps the unfinished line of a chunk for the next one
\* would be needed to parse a line cut by the transport; this one parses
\* every chunk on its own.
RECURSIVE WritesOfLines(_)
WritesOfLines(lines) ==
    IF lines = <<>> THEN <<>> ELSE LineWrites(Head(lines)) \o WritesOfLines(Tail(lines))

\* The res.write calls of the 'data' handler for one chunk.
OnDataWrites(chunk) == WritesOfLines(Split(chunk, <<>>, <<>>))

\* The backend emits the next text delta.
BackendEmit ==
    /\ backend = "streaming"
    /\ Len(emitted) < MaxDeltas
    /\ LET d == Len(emitted) + 1
       IN  /\ emitted' = Append(emitted, d)
           /\ wire' = wire \o DeltaEvent(d)
    /\ UNCHANGED <<backend, written, resEnded, readPos, fullText, outcome, cancelled, handled>>
    /\ RelayOnly

\* The backend completes: data: [DONE], then the end of the body.
BackendEnd ==
    /\ backend = "streaming"
    /\ wire' = wire \o DoneEvent
    /\ backend' = "ended"
    /\ UNCHANGED <<emitted, written, resEnded, readPos, fullText, outcome, cancelled, handled>>
    /\ RelayOnly

\* openaiRes.body.on('data'): the transport hands over the next bytes, up
\* to a boundary of its choice.
OnData ==
    /\ ~resEnded
    /\ \E n \in 1..Len(wire) :
          /\ written' = written \o OnDataWrites(SubSeq(wire, 1, n))
          /\ wire' = SubSeq(wire, n + 1, Len(wire))
    /\ handled' = handled + 1
    /\ UNCHANGED <<backend, emitted, resEnded, readPos, fullText, outcome, cancelled>>
    /\ RelayOnly

\* openaiRes.body.on('end'): res.end()
OnEnd ==
    /\ backend = "ended"
    /\ wire = <<>>
    /\ ~resEnded
    /\ resEnded' = TRUE
    /\ UNCHANGED <<backend, emitted, wire, written, readPos, fullText, outcome, cancelled, handled>>
    /\ RelayOnly

\* The backend's stream fails; openaiRes.body.on('error') logs the error
\* and calls res.end().  Bytes not yet handed over are lost.
OnError ==
    /\ backend = "streaming"
    /\ backend' = "errored"
    /\ wire' = <<>>
    /\ resEnded' = TRUE
    /\ UNCHANGED <<emitted, written, readPos, fullText, outcome, cancelled, handled>>
    /\ RelayOnly

\* fetchAssistantAnswer: reader.read() returns a value; fullText += chunk
ClientRead ==
    /\ outcome = NoOutcome
    /\ ~cancelled
    /\ readPos < Len(written)
    /\ fullText' = Append(fullText, written[readPos + 1])
    /\ readPos' = readPos + 1
    /\ UNCHANGED <<backend, emitted, wire, written, resEnded, outcome, cancelled, handled>>
    /\ RelayOnly

\* reader.read() returns done: the loop ends and fullText is appended to
\* the thread as the assistant's message.
ClientDone ==
    /\ outcome = NoOutcome
    /\ ~cancelled
    /\ readPos = Len(written)
    /\ resEnded
    /\ outcome' = [kind |-> "assistant", content |-> fullText, failed |-> FALSE]
    /\ UNCHANGED <<backend, emitted, wire, written, resEnded, readPos, fullText, cancelled, handled>>
    /\ RelayOnly

\* fetch or reader.read() throws (the connection to the chat endpoint
\* breaks): the catch appends the error notice.
ClientCatch ==
    /\ outcome = NoOutcome
    /\ ~cancelled
    /\ outcome' = [kind |-> "assistant", content |-> ERROR_NOTICE, failed |-> TRUE]
    /\ UNCHANGED <<backend, emitted, wire, written, resEnded, readPos, fullText, cancelled, handled>>
    /\ RelayOnly

\* The caller goes away while the answer streams: the page is closed or
\* the connection drops.  fetchAssistantAnswer has no abort, and the
\* handler registers no listener for the closed request.
ClientCancel ==
    /\ outcome = NoOutcome
    /\ ~cancelled
    /\ ~resEnded
    /\ cancelled' = TRUE
    /\ UNCHANGED <<backend, emitted, wire, written, resEnded, readPos, fullText, outcome, handled>>
    /\ RelayOnly

\* The handler fails before it relays anything (the retrieval or the
\* request to the backend throws, or the backend's answer has no body):
\* it answers 500 with the JSON body {error: ...}, which the client reads
\* like any other body.
HandlerFails ==
    /\ backend = "streaming"
    /\ emitted = <<>> /\ wire = <<>> /\ written = <<>>
    /\ ~resEnded
    /\ backend' = "refused"
    /\ written' = <<ERROR_PAYLOAD>>
    /\ resEnded' = TRUE
    /\ UNCHANGED <<emitted, wire, readPos, fullText, outcome, cancelled, handled>>
    /\ RelayOnly

(***************************************************************************)
(* chunkText                                                               *)
(*                                                                         *)
(* A text is a sequence of characters: SPACE is a whitespace character,    *)
(* every other character is a word-unit (a token) written as one symbol,   *)
(* the k-th token of the text being k.  A text may begin and end with      *)
(* whitespace.                                                             *)
(***************************************************************************)
\* Tokens of the longest text the model chunks, and the largest chunk size.
MaxWords == 10
MaxChunkSize == 4

NoChunking == [present |-> FALSE]

SPACE == 0

\* The text of n tokens separated by single spaces, with optional leading
\* and trailing whitespace.
TextOf(lead, n, trail) ==
    LET body == [k \in 1..(IF n = 0 THEN 0 ELSE 2 * n - 1) |->
                    IF k % 2 = 1 THEN (k + 1) \div 2 ELSE SPACE]
    IN  (IF lead THEN <<SPACE>> ELSE <<>>) \o body \o (IF trail THEN <<SPACE>> ELSE <<>>)

RECURSIVE DropSpaces(_)
DropSpaces(str) ==
    IF str # <<>> /\ Head(str) = SPACE THEN DropSpaces(Tail(str)) ELSE str

\* text.split(/\s+/): the pieces between runs of whitespace; a text that
\* begins (ends) with whitespace gives an empty first (last) piece, and the
\* empty text gives one empty piece.
RECURSIVE SplitWords(_, _, _)
SplitWords(rest, word, words) ==
    IF rest = <<>> THEN Append(words, word)
    ELSE IF Head(rest) = SPACE
         THEN SplitWords(DropSpaces(rest), <<>>, Append(words, word))
         ELSE SplitWords(Tail(rest), Append(word, Head(rest)), words)

\* words.join(' ')
RECURSIVE Join(_)
Join(words) ==
    IF words = <<>> THEN <<>>
    ELSE IF Len(words) = 1 THEN words[1]
    ELSE words[1] \o <<SPACE>> \o Join(Tail(words))

RECURSIVE TrimEnd(_)
TrimEnd(str) ==
    IF str # <<>> /\ str[Len(str)] = SPACE THEN TrimEnd(SubSeq(str, 1, Len(str) - 1)) ELSE str

\* String.prototype.trim
Trim(str) == TrimEnd(DropSpaces(str))

\* The loop of chunkText from index i (counted from 0).
RECURSIVE chunkLoop(_, _, _, _, _)
chunkLoop(words, i, chunkSize, overlap, out) ==
    IF i >= Len(words) THEN out
    ELSE LET chunk == Join(SubSeq(words, i + 1, Min(i + chunkSize, Len(words))))
         IN  chunkLoop(words, i + (chunkSize - overlap), chunkSize, overlap,
                       IF Trim(chunk) # <<>> THEN Append(out, Trim(chunk)) ELSE out)

\* chunkText without its test of chunk.trim(): every window is pushed.
RECURSIVE chunkLoop_pushAll(_, _, _, _, _)
chunkLoop_pushAll(words, i, chunkSize, overlap, out) ==
    IF i >= Len(words) THEN out
    ELSE LET chunk == Join(SubSeq(words, i + 1, Min(i + chunkSize, Len(words))))
         IN  chunkLoop_pushAll(words, i + (chunkSize - overlap), chunkSize, overlap,
                               Append(out, Trim(chunk)))

chunkText_pushAll(text, chunkSize, overlap) ==
    chunkLoop_pushAll(SplitWords(text, <<>>, <<>>), 0, chunkSize, overlap, <<>>)

chunkText(text, chunkSize, overlap) ==
    chunkLoop(SplitWords(text, <<>>, <<>>), 0, chunkSize, overlap, <<>>)

\* The tokens of a chunk, in order.
Tokens(chunk) == SelectSeq(chunk, LAMBDA c : c # SPACE)

\* The script calls chunkText(textContent, chunkSize, overlap) with
\* 0 <= overlap < chunkSize.
ChunkRequest ==
    /\ ~chunkIn.present
    /\ \E n \in 0..MaxWords, lead \in BOOLEAN, trail \in BOOLEAN,
          chunkSize \in 1..MaxChunkSize :
          \E overlap \in 0..(chunkSize - 1) :
             chunkIn' = [present |-> TRUE, done |-> FALSE, text |-> TextOf(lead, n, trail),
                         words |-> n, chunkSize |-> chunkSize, overlap |-> overlap]
    /\ UNCHANGED chunkOut
    /\ ChunkOnly

ChunkText ==
    /\ chunkIn.present
    /\ ~chunkIn.done
    /\ chunkOut' = chunkText(chunkIn.text, chunkIn.chunkSize, chunkIn.overlap)
    /\ chunkIn' = [chunkIn EXCEPT !.done = TRUE]
    /\ ChunkOnly

(***************************************************************************)
(* Two ChatThreadManagers over one localStorage                            *)
(*                                                                         *)
(* The page is open in two tabs: each tab constructed its manager from the *)
(* same stored value, keeps its own this.thread in memory and writes the   *)
(* whole thread under the one storage key on every addMessage.             *)
(***************************************************************************)
Tabs == {1, 2}
\* Messages appended in one tab before the model stops it.
MaxTabOps == 4

\* What localStorage holds when the two tabs load.
TabStoredValues ==
    {[kind |-> "null"]} \cup {StoredThread(0, OldMessages(n)) : n \in {0, 1, MAX_MESSAGES - 1}}

\* The k-th message typed in tab t.
TabMessage(t, k) == Message("user", 10 * k + t)

\* addMessage that reads the stored thread again before it pushes.
addMessageTo_reload(mem, s, m) ==
    LET cur == loadThread(s, mem.id)
    IN  [cur EXCEPT !.messages = addMessageResult(cur.messages, m)]

\* this.thread after addMessage(m) in a manager whose this.thread is mem
\* while localStorage holds s: the push is made on the thread in memory,
\* the stored value is not read.
addMessageTo(mem, s, m) ==
    [mem EXCEPT !.messages = addMessageResult(mem.messages, m)]

TabAddMessage(t) ==
    /\ Len(tabAppended[t]) < MaxTabOps
    /\ LET m == TabMessage(t, Len(tabAppended[t]) + 1)
           th == addMessageTo(tabs[t], shared, m)
       IN  /\ tabs' = [tabs EXCEPT ![t] = th]
           /\ \E ok \in BOOLEAN :
                 /\ shared' = setItem(shared, saveThread(th), ok)
                 /\ lastWriter' = IF ok THEN t ELSE lastWriter
           /\ tabAppended' = [tabAppended EXCEPT ![t] = Append(@, m)]
    /\ TabOnly

(***************************************************************************)
(* chunkText, step by step, for any chunkSize >= 1 and overlap >= 0        *)
(* (the settings endpoint stores whatever chunk_size and overlap it is     *)
(* given).                                                                 *)
(***************************************************************************)
\* Iterations after which the model stops following a call; a call whose
\* index advances returns within Len(words) <= MaxWords + 2 iterations.
MaxIterations == MaxWords + 4

\* Array.prototype.slice(start, end): a negative index counts from the end.
Slice(arr, start, end) ==
    LET len == Len(arr)
        from == IF start < 0 THEN Max(len + start, 0) ELSE Min(start, len)
        to == IF end < 0 THEN Max(len + end, 0) ELSE Min(end, len)
    IN  SubSeq(arr, from + 1, to)

\* chunkText(text, chunkSize, overlap) is called: chunks = [], words =
\* text.split(/\s+/), i = 0.
LoopStart ==
    /\ loopPc = "idle"
    /\ \E n \in 0..MaxWords, lead \in BOOLEAN, trail \in BOOLEAN,
          chunkSize \in 1..MaxChunkSize, overlap \in 0..(MaxChunkSize + 1) :
          loopArgs' = [present |-> TRUE, words |-> SplitWords(TextOf(lead, n, trail), <<>>, <<>>),
                       chunkSize |-> chunkSize, overlap |-> overlap]
    /\ loopPc' = "looping"
    /\ loopI' = 0
    /\ loopChunks' = <<>>
    /\ loopIters' = 0
    /\ LoopOnly

\* One iteration of the for loop: i < words.length.
LoopStep ==
    /\ loopPc = "looping"
    /\ loopI < Len(loopArgs.words)
    /\ loopIters < MaxIterations
    /\ LET chunk == Join(Slice(loopArgs.words, loopI, loopI + loopArgs.chunkSize))
       IN  loopChunks' = IF Trim(chunk) # <<>> THEN Append(loopChunks, Trim(chunk))
                         ELSE loopChunks
    /\ loopI' = loopI + (loopArgs.chunkSize - loopArgs.overlap)
    /\ loopIters' = loopIters + 1
    /\ UNCHANGED <<loopArgs, loopPc>>
    /\ LoopOnly

\* The loop's test fails: return chunks.
LoopReturn ==
    /\ loopPc = "looping"
    /\ loopI >= Len(loopArgs.words)
    /\ loopPc' = "returned"
    /\ UNCHANGED <<loopArgs, loopI, loopChunks, loopIters>>
    /\ LoopOnly

(***************************************************************************)
(* RagAIAssistantHero: a question, its streamed answer, and the Clear      *)
(* button, over one ChatThreadManager                                      *)
(***************************************************************************)
\* Questions asked before the model stops the page, and clears.
MaxQuestions == 3
MaxClears == 2

NoFlight == [active |-> FALSE]

\* A message of the page: the q-th question ("question"), the text
\* streamed for it ("answer") or the error notice ("notice"); conv is the
\* id of the thread the question was asked in.
ConvMessage(role, kind, q, conv) ==
    [role |-> role, content |-> [kind |-> kind, question |-> q], timestamp |-> q, conv |-> conv]

\* handleSubmit -> fetchAssistantAnswer up to its await: the user's message
\* is added to the thread and the request is sent.
handleSubmit ==
    /\ ~isLoading
    /\ asked < MaxQuestions
    /\ LET q == asked + 1
           t == [convThread EXCEPT
                    !.messages = addMessageResult(@, ConvMessage("user", "question", q, convThread.id))]
       IN  /\ convThread' = t
           /\ \E ok \in BOOLEAN : convStored' = setItem(convStored, saveThread(t), ok)
           /\ inFlight' = [active |-> TRUE, question |-> q, conv |-> convThread.id]
           /\ asked' = q
    /\ isLoading' = TRUE
    /\ UNCHANGED convNextId
    /\ ConvOnly

\* fetchAssistantAnswer after the reader is done, or in its catch: the
\* assistant's message (the answer, or the error notice) is added to the
\* manager's thread; finally setIsLoading(false).
AnswerArrives ==
    /\ inFlight.active
    /\ \E kind \in {"answer", "notice"} :
          LET t == [convThread EXCEPT
                       !.messages = addMessageResult(@, ConvMessage("assistant", kind,
                                                                     inFlight.question,
                                                                     inFlight.conv))]
          IN  /\ convThread' = t
              /\ \E ok \in BOOLEAN : convStored' = setItem(convStored, saveThread(t), ok)
    /\ inFlight' = NoFlight
    /\ isLoading' = FALSE
    /\ UNCHANGED <<convNextId, asked>>
    /\ ConvOnly

\* The Clear button (enabled whether or not an answer is streaming):
\* chatThreadManager.clearThread().
clearConversation ==
    /\ convNextId <= MaxClears + 1
    /\ LET t == [id |-> generateThreadId(convNextId), messages |-> <<>>]
       IN  /\ convThread' = t
           /\ \E ok \in BOOLEAN : convStored' = setItem(convStored, saveThread(t), ok)
    /\ convNextId' = convNextId + 1
    /\ UNCHANGED <<isLoading, inFlight, asked>>
    /\ ConvOnly

(***************************************************************************)
(* /api/user-rag-settings (POST) and the dashboard's save                  *)
(*                                                                         *)
(* A request body is a record of the fields it supplies.  A text is a      *)
(* number, 0 for the empty string; similarity_threshold is in hundredths.  *)
(***************************************************************************)
NoRow == [present |-> FALSE]
NoBody == [sent |-> FALSE]

RequiredFields == {"user_instruction", "system_prompt"}
TunableFields == {"chunk_size", "overlap", "max_results", "similarity_threshold"}

\* chunk_size || 300, overlap || 50, max_results || 5,
\* similarity_threshold || 0.7
SettingsDefaults ==
    [chunk_size |-> 300, overlap |-> 50, max_results |-> 5, similarity_threshold |-> 70]

\* The bodies the settings form of a client posts: all six fields.
FormBodies ==
    [user_instruction : {0, 1, 2}, system_prompt : {1},
     chunk_size : {0, 500}, overlap : {50, 100}, max_results : {5, 10},
     similarity_threshold : {70, 80}]

\* A body that lacks a required field.
IncompleteBodies == [system_prompt : {1}]

\* JSON.stringify(settings), settings = {user_instruction, system_prompt}
DashboardBodies == [user_instruction : {0, 1, 2}, system_prompt : {1}]

\* !v for a destructured field: undefined, 0 and "" are falsy
Falsy(body, f) == f \notin DOMAIN body \/ body[f] = 0

\* v || d
OrDefault(body, f) == IF Falsy(body, f) THEN SettingsDefaults[f] ELSE body[f]

\* The row the upsert writes (onConflict: user_id replaces the stored row).
UpsertRow(body) ==
    [present |-> TRUE,
     user_instruction |-> body.user_instruction,
     system_prompt |-> body.system_prompt,
     chunk_size |-> OrDefault(body, "chunk_size"),
     overlap |-> OrDefault(body, "overlap"),
     max_results |-> OrDefault(body, "max_results"),
     similarity_threshold |-> OrDefault(body, "similarity_threshold")]

\* The POST branch of the handler: the status it answers and the row it
\* leaves; dbOk is whether the database accepted the upsert.
postSettings(row, body, dbOk) ==
    IF Falsy(body, "user_instruction") \/ Falsy(body, "system_prompt")
        THEN [status |-> 400, row |-> row]
    ELSE IF ~dbOk THEN [status |-> 500, row |-> row]
    ELSE [status |-> 200, row |-> UpsertRow(body)]

\* POST /api/user-rag-settings from a client's settings form.
PostSettings ==
    /\ \E body \in FormBodies \cup IncompleteBodies, dbOk \in BOOLEAN :
          LET r == postSettings(settingsRow, body, dbOk)
          IN  /\ settingsRow' = r.row
              /\ settingsStatus' = r.status
              /\ settingsReq' = body
    /\ SettingsOnly

\* The dashboard's Save button: the same POST with the dashboard's body.
handleSettingsSave ==
    /\ \E body \in DashboardBodies, dbOk \in BOOLEAN :
          LET r == postSettings(settingsRow, body, dbOk)
          IN  /\ settingsRow' = r.row
              /\ settingsStatus' = r.status
              /\ settingsReq' = body
    /\ SettingsOnly

(***************************************************************************)
(* Specifications                                                          *)
(***************************************************************************)
\* The page loads: the manager is constructed over whatever is stored.
InitThread ==
    /\ stored \in StoredValues
    /\ thread = loadThread(stored, generateThreadId(1))
    /\ base = thread.messages
    /\ appended = <<>>
    /\ clock = 1
    /\ nextId = 2
    /\ store = <<>>
    /\ request = NoRequest
    /\ result = <<>>
    /\ procPc = "idle"
    /\ chunks = <<>>
    /\ batchStart = 0
    /\ embeddings = <<>>
    /\ embResult = NoResult
    /\ sent = <<>>
    /\ docStatus = "pending"
    /\ docRows = <<>>
    /\ chatIn = NoChat
    /\ messages = <<>>
    /\ backend = "streaming"
    /\ emitted = <<>>
    /\ wire = <<>>
    /\ written = <<>>
    /\ resEnded = FALSE
    /\ readPos = 0
    /\ fullText = <<>>
    /\ outcome = NoOutcome
    /\ cancelled = FALSE
    /\ handled = 0
    /\ chunkIn = NoChunking
    /\ chunkOut = <<>>
    /\ tabs = <<>>
    /\ shared = [kind |-> "null"]
    /\ tabAppended = <<>>
    /\ lastWriter = 0
    /\ settingsRow = NoRow
    /\ settingsReq = NoBody
    /\ settingsStatus = 0
    /\ loopArgs = NoChunking
    /\ loopPc = "idle"
    /\ loopI = 0
    /\ loopChunks = <<>>
    /\ loopIters = 0
    /\ convThread = [id |-> generateThreadId(1), messages |-> <<>>]
    /\ convStored = [kind |-> "null"]
    /\ convNextId = 2
    /\ isLoading = FALSE
    /\ inFlight = NoFlight
    /\ asked = 0
    /\ usedIds = {thread.id}
    /\ failedWrites = 0

NextThread == AddMessage \/ ClearThread

SpecThread == InitThread /\ [][NextThread]_vars

\* An empty pdf_chunks table.
InitRetrieve ==
    /\ store = <<>>
    /\ request = NoRequest
    /\ result = <<>>
    /\ stored = [kind |-> "null"]
    /\ thread = [id |-> generateThreadId(1), messages |-> <<>>]
    /\ base = <<>>
    /\ appended = <<>>
    /\ clock = 1
    /\ nextId = 2
    /\ procPc = "idle"
    /\ chunks = <<>>
    /\ batchStart = 0
    /\ embeddings = <<>>
    /\ embResult = NoResult
    /\ sent = <<>>
    /\ docStatus = "pending"
    /\ docRows = <<>>
    /\ chatIn = NoChat
    /\ messages = <<>>
    /\ backend = "streaming"
    /\ emitted = <<>>
    /\ wire = <<>>
    /\ written = <<>>
    /\ resEnded = FALSE
    /\ readPos = 0
    /\ fullText = <<>>
    /\ outcome = NoOutcome
    /\ cancelled = FALSE
    /\ handled = 0
    /\ chunkIn = NoChunking
    /\ chunkOut = <<>>
    /\ tabs = <<>>
    /\ shared = [kind |-> "null"]
    /\ tabAppended = <<>>
    /\ lastWriter = 0
    /\ settingsRow = NoRow
    /\ settingsReq = NoBody
    /\ settingsStatus = 0
    /\ loopArgs = NoChunking
    /\ loopPc = "idle"
    /\ loopI = 0
    /\ loopChunks = <<>>
    /\ loopIters = 0
    /\ convThread = [id |-> generateThreadId(1), messages |-> <<>>]
    /\ convStored = [kind |-> "null"]
    /\ convNextId = 2
    /\ isLoading = FALSE
    /\ inFlight = NoFlight
    /\ asked = 0
    /\ usedIds = {thread.id}
    /\ failedWrites = 0

NextRetrieve == InsertChunk \/ MatchUserPdfChunks \/ RagRetrieve

SpecRetrieve == InitRetrieve /\ [][NextRetrieve]_vars

\* A document record was created by an upload; nothing is processed yet.
InitProcess ==
    /\ procPc = "idle"
    /\ chunks = <<>>
    /\ batchStart = 0
    /\ embeddings = <<>>
    /\ embResult = NoResult
    /\ sent = <<>>
    /\ docStatus = "pending"
    /\ docRows = <<>>
    /\ stored = [kind |-> "null"]
    /\ thread = [id |-> generateThreadId(1), messages |-> <<>>]
    /\ base = <<>>
    /\ appended = <<>>
    /\ clock = 1
    /\ nextId = 2
    /\ store = <<>>
    /\ request = NoRequest
    /\ result = <<>>
    /\ chatIn = NoChat
    /\ messages = <<>>
    /\ backend = "streaming"
    /\ emitted = <<>>
    /\ wire = <<>>
    /\ written = <<>>
    /\ resEnded = FALSE
    /\ readPos = 0
    /\ fullText = <<>>
    /\ outcome = NoOutcome
    /\ cancelled = FALSE
    /\ handled = 0
    /\ chunkIn = NoChunking
    /\ chunkOut = <<>>
    /\ tabs = <<>>
    /\ shared = [kind |-> "null"]
    /\ tabAppended = <<>>
    /\ lastWriter = 0
    /\ settingsRow = NoRow
    /\ settingsReq = NoBody
    /\ settingsStatus = 0
    /\ loopArgs = NoChunking
    /\ loopPc = "idle"
    /\ loopI = 0
    /\ loopChunks = <<>>
    /\ loopIters = 0
    /\ convThread = [id |-> generateThreadId(1), messages |-> <<>>]
    /\ convStored = [kind |-> "null"]
    /\ convNextId = 2
    /\ isLoading = FALSE
    /\ inFlight = NoFlight
    /\ asked = 0
    /\ usedIds = {thread.id}
    /\ failedWrites = 0

NextProcess ==
    \/ ProcessorSetupThrows
    \/ StartProcessing
    \/ ExtractionFails
    \/ Extracted
    \/ EmbedBatch
    \/ EmbedBatchThrows
    \/ EmbedReturn
    \/ EmbeddingsFailed
    \/ StoreChunks

SpecProcess == InitProcess /\ [][NextProcess]_vars

\* The chat endpoint waits for a request.
InitAssemble ==
    /\ chatIn = NoChat
    /\ messages = <<>>
    /\ stored = [kind |-> "null"]
    /\ thread = [id |-> generateThreadId(1), messages |-> <<>>]
    /\ base = <<>>
    /\ appended = <<>>
    /\ clock = 1
    /\ nextId = 2
    /\ store = <<>>
    /\ request = NoRequest
    /\ result = <<>>
    /\ procPc = "idle"
    /\ chunks = <<>>
    /\ batchStart = 0
    /\ embeddings = <<>>
    /\ embResult = NoResult
    /\ sent = <<>>
    /\ docStatus = "pending"
    /\ docRows = <<>>
    /\ backend = "streaming"
    /\ emitted = <<>>
    /\ wire = <<>>
    /\ written = <<>>
    /\ resEnded = FALSE
    /\ readPos = 0
    /\ fullText = <<>>
    /\ outcome = NoOutcome
    /\ cancelled = FALSE
    /\ handled = 0
    /\ chunkIn = NoChunking
    /\ chunkOut = <<>>
    /\ tabs = <<>>
    /\ shared = [kind |-> "null"]
    /\ tabAppended = <<>>
    /\ lastWriter = 0
    /\ settingsRow = NoRow
    /\ settingsReq = NoBody
    /\ settingsStatus = 0
    /\ loopArgs = NoChunking
    /\ loopPc = "idle"
    /\ loopI = 0
    /\ loopChunks = <<>>
    /\ loopIters = 0
    /\ convThread = [id |-> generateThreadId(1), messages |-> <<>>]
    /\ convStored = [kind |-> "null"]
    /\ convNextId = 2
    /\ isLoading = FALSE
    /\ inFlight = NoFlight
    /\ asked = 0
    /\ usedIds = {thread.id}
    /\ failedWrites = 0

NextAssemble == ChatRequest \/ BuildMessages

SpecAssemble == InitAssemble /\ [][NextAssemble]_vars

\* The chat endpoint has sent the messages to the generation backend and
\* set the response headers; the client awaits the body.
InitRelay ==
    /\ backend = "streaming"
    /\ emitted = <<>>
    /\ wire = <<>>
    /\ written = <<>>
    /\ resEnded = FALSE
    /\ readPos = 0
    /\ fullText = <<>>
    /\ outcome = NoOutcome
    /\ cancelled = FALSE
    /\ handled = 0
    /\ stored = [kind |-> "null"]
    /\ thread = [id |-> generateThreadId(1), messages |-> <<>>]
    /\ base = <<>>
    /\ appended = <<>>
    /\ clock = 1
    /\ nextId = 2
    /\ store = <<>>
    /\ request = NoRequest
    /\ result = <<>>
    /\ procPc = "idle"
    /\ chunks = <<>>
    /\ batchStart = 0
    /\ embeddings = <<>>
    /\ embResult = NoResult
    /\ sent = <<>>
    /\ docStatus = "pending"
    /\ docRows = <<>>
    /\ chatIn = NoChat
    /\ messages = <<>>
    /\ chunkIn = NoChunking
    /\ chunkOut = <<>>
    /\ tabs = <<>>
    /\ shared = [kind |-> "null"]
    /\ tabAppended = <<>>
    /\ lastWriter = 0
    /\ settingsRow = NoRow
    /\ settingsReq = NoBody
    /\ settingsStatus = 0
    /\ loopArgs = NoChunking
    /\ loopPc = "idle"
    /\ loopI = 0
    /\ loopChunks = <<>>
    /\ loopIters = 0
    /\ convThread = [id |-> generateThreadId(1), messages |-> <<>>]
    /\ convStored = [kind |-> "null"]
    /\ convNextId = 2
    /\ isLoading = FALSE
    /\ inFlight = NoFlight
    /\ asked = 0
    /\ usedIds = {thread.id}
    /\ failedWrites = 0

NextRelay ==
    \/ BackendEmit
    \/ BackendEnd
    \/ OnData
    \/ OnEnd
    \/ OnError
    \/ ClientRead
    \/ ClientDone
    \/ ClientCatch
    \/ ClientCancel
    \/ HandlerFails

SpecRelay == InitRelay /\ [][NextRelay]_vars

\* No chunkText call has been made.
InitChunk ==
    /\ chunkIn = NoChunking
    /\ chunkOut = <<>>
    /\ stored = [kind |-> "null"]
    /\ thread = [id |-> generateThreadId(1), messages |-> <<>>]
    /\ base = <<>>
    /\ appended = <<>>
    /\ clock = 1
    /\ nextId = 2
    /\ store = <<>>
    /\ request = NoRequest
    /\ result = <<>>
    /\ procPc = "idle"
    /\ chunks = <<>>
    /\ batchStart = 0
    /\ embeddings = <<>>
    /\ embResult = NoResult
    /\ sent = <<>>
    /\ docStatus = "pending"
    /\ docRows = <<>>
    /\ chatIn = NoChat
    /\ messages = <<>>
    /\ backend = "streaming"
    /\ emitted = <<>>
    /\ wire = <<>>
    /\ written = <<>>
    /\ resEnded = FALSE
    /\ readPos = 0
    /\ fullText = <<>>
    /\ outcome = NoOutcome
    /\ cancelled = FALSE
    /\ handled = 0
    /\ tabs = <<>>
    /\ shared = [kind |-> "null"]
    /\ tabAppended = <<>>
    /\ lastWriter = 0
    /\ settingsRow = NoRow
    /\ settingsReq = NoBody
    /\ settingsStatus = 0
    /\ loopArgs = NoChunking
    /\ loopPc = "idle"
    /\ loopI = 0
    /\ loopChunks = <<>>
    /\ loopIters = 0
    /\ convThread = [id |-> generateThreadId(1), messages |-> <<>>]
    /\ convStored = [kind |-> "null"]
    /\ convNextId = 2
    /\ isLoading = FALSE
    /\ inFlight = NoFlight
    /\ asked = 0
    /\ usedIds = {thread.id}
    /\ failedWrites = 0

NextChunk == ChunkRequest \/ ChunkText

SpecChunk == InitChunk /\ [][NextChunk]_vars

\* Both tabs have loaded the page.
InitTabs ==
    /\ shared \in TabStoredValues
    /\ tabs = [t \in Tabs |-> loadThread(shared, generateThreadId(t))]
    /\ tabAppended = [t \in Tabs |-> <<>>]
    /\ lastWriter = 0
    /\ stored = [kind |-> "null"]
    /\ thread = [id |-> generateThreadId(1), messages |-> <<>>]
    /\ base = <<>>
    /\ appended = <<>>
    /\ clock = 1
    /\ nextId = 2
    /\ store = <<>>
    /\ request = NoRequest
    /\ result = <<>>
    /\ procPc = "idle"
    /\ chunks = <<>>
    /\ batchStart = 0
    /\ embeddings = <<>>
    /\ embResult = NoResult
    /\ sent = <<>>
    /\ docStatus = "pending"
    /\ docRows = <<>>
    /\ chatIn = NoChat
    /\ messages = <<>>
    /\ backend = "streaming"
    /\ emitted = <<>>
    /\ wire = <<>>
    /\ written = <<>>
    /\ resEnded = FALSE
    /\ readPos = 0
    /\ fullText = <<>>
    /\ outcome = NoOutcome
    /\ cancelled = FALSE
    /\ handled = 0
    /\ chunkIn = NoChunking
    /\ chunkOut = <<>>
    /\ settingsRow = NoRow
    /\ settingsReq = NoBody
    /\ settingsStatus = 0
    /\ loopArgs = NoChunking
    /\ loopPc = "idle"
    /\ loopI = 0
    /\ loopChunks = <<>>
    /\ loopIters = 0
    /\ convThread = [id |-> generateThreadId(1), messages |-> <<>>]
    /\ convStored = [kind |-> "null"]
    /\ convNextId = 2
    /\ isLoading = FALSE
    /\ inFlight = NoFlight
    /\ asked = 0
    /\ usedIds = {thread.id}
    /\ failedWrites = 0

NextTabs == \E t \in Tabs : TabAddMessage(t)

SpecTabs == InitTabs /\ [][NextTabs]_vars

\* No settings row is stored for the tenant.
InitSettings ==
    /\ stored = [kind |-> "null"]
    /\ thread = [id |-> generateThreadId(1), messages |-> <<>>]
    /\ base = <<>>
    /\ appended = <<>>
    /\ clock = 1
    /\ nextId = 2
    /\ store = <<>>
    /\ request = NoRequest
    /\ result = <<>>
    /\ procPc = "idle"
    /\ chunks = <<>>
    /\ batchStart = 0
    /\ embeddings = <<>>
    /\ embResult = NoResult
    /\ sent = <<>>
    /\ docStatus = "pending"
    /\ docRows = <<>>
    /\ chatIn = NoChat
    /\ messages = <<>>
    /\ backend = "streaming"
    /\ emitted = <<>>
    /\ wire = <<>>
    /\ written = <<>>
    /\ resEnded = FALSE
    /\ readPos = 0
    /\ fullText = <<>>
    /\ outcome = NoOutcome
    /\ cancelled = FALSE
    /\ handled = 0
    /\ chunkIn = NoChunking
    /\ chunkOut = <<>>
    /\ tabs = <<>>
    /\ shared = [kind |-> "null"]
    /\ tabAppended = <<>>
    /\ lastWriter = 0
    /\ settingsRow = NoRow
    /\ settingsReq = NoBody
    /\ settingsStatus = 0
    /\ loopArgs = NoChunking
    /\ loopPc = "idle"
    /\ loopI = 0
    /\ loopChunks = <<>>
    /\ loopIters = 0
    /\ convThread = [id |-> generateThreadId(1), messages |-> <<>>]
    /\ convStored = [kind |-> "null"]
    /\ convNextId = 2
    /\ isLoading = FALSE
    /\ inFlight = NoFlight
    /\ asked = 0
    /\ usedIds = {thread.id}
    /\ failedWrites = 0

NextSettings == PostSettings \/ handleSettingsSave

SpecSettings == InitSettings /\ [][NextSettings]_vars

\* No call of chunkText has been made.
InitChunkLoop ==
    /\ stored = [kind |-> "null"]
    /\ thread = [id |-> generateThreadId(1), messages |-> <<>>]
    /\ base = <<>>
    /\ appended = <<>>
    /\ clock = 1
    /\ nextId = 2
    /\ store = <<>>
    /\ request = NoRequest
    /\ result = <<>>
    /\ procPc = "idle"
    /\ chunks = <<>>
    /\ batchStart = 0
    /\ embeddings = <<>>
    /\ embResult = NoResult
    /\ sent = <<>>
    /\ docStatus = "pending"
    /\ docRows = <<>>
    /\ chatIn = NoChat
    /\ messages = <<>>
    /\ backend = "streaming"
    /\ emitted = <<>>
    /\ wire = <<>>
    /\ written = <<>>
    /\ resEnded = FALSE
    /\ readPos = 0
    /\ fullText = <<>>
    /\ outcome = NoOutcome
    /\ cancelled = FALSE
    /\ handled = 0
    /\ chunkIn = NoChunking
    /\ chunkOut = <<>>
    /\ tabs = <<>>
    /\ shared = [kind |-> "null"]
    /\ tabAppended = <<>>
    /\ lastWriter = 0
    /\ settingsRow = NoRow
    /\ settingsReq = NoBody
    /\ settingsStatus = 0
    /\ loopArgs = NoChunking
    /\ loopPc = "idle"
    /\ loopI = 0
    /\ loopChunks = <<>>
    /\ loopIters = 0
    /\ convThread = [id |-> generateThreadId(1), messages |-> <<>>]
    /\ convStored = [kind |-> "null"]
    /\ convNextId = 2
    /\ isLoading = FALSE
    /\ inFlight = NoFlight
    /\ asked = 0
    /\ usedIds = {thread.id}
    /\ failedWrites = 0

NextChunkLoop == LoopStart \/ LoopStep \/ LoopReturn

SpecChunkLoop == InitChunkLoop /\ [][NextChunkLoop]_vars

\* The page has loaded with nothing stored.
InitConversation ==
    /\ stored = [kind |-> "null"]
    /\ thread = [id |-> generateThreadId(1), messages |-> <<>>]
    /\ base = <<>>
    /\ appended = <<>>
    /\ clock = 1
    /\ nextId = 2
    /\ store = <<>>
    /\ request = NoRequest
    /\ result = <<>>
    /\ procPc = "idle"
    /\ chunks = <<>>
    /\ batchStart = 0
    /\ embeddings = <<>>
    /\ embResult = NoResult
    /\ sent = <<>>
    /\ docStatus = "pending"
    /\ docRows = <<>>
    /\ chatIn = NoChat
    /\ messages = <<>>
    /\ backend = "streaming"
    /\ emitted = <<>>
    /\ wire = <<>>
    /\ written = <<>>
    /\ resEnded = FALSE
    /\ readPos = 0
    /\ fullText = <<>>
    /\ outcome = NoOutcome
    /\ cancelled = FALSE
    /\ handled = 0
    /\ chunkIn = NoChunking
    /\ chunkOut = <<>>
    /\ tabs = <<>>
    /\ shared = [kind |-> "null"]
    /\ tabAppended = <<>>
    /\ lastWriter = 0
    /\ settingsRow = NoRow
    /\ settingsReq = NoBody
    /\ settingsStatus = 0
    /\ loopArgs = NoChunking
    /\ loopPc = "idle"
    /\ loopI = 0
    /\ loopChunks = <<>>
    /\ loopIters = 0
    /\ convThread = [id |-> generateThreadId(1), messages |-> <<>>]
    /\ convStored = [kind |-> "null"]
    /\ convNextId = 2
    /\ isLoading = FALSE
    /\ inFlight = NoFlight
    /\ asked = 0
    /\ usedIds = {thread.id}
    /\ failedWrites = 0

NextConversation == handleSubmit \/ AnswerArrives \/ clearConversation

SpecConversation == InitConversation /\ [][NextConversation]_vars

(***************************************************************************)
(* Properties                                                              *)
(***************************************************************************)
\* The rows pdf_chunks held when the last request was served.
TableAtRequest == SubSeq(store, 1, request.at)

\* C1: every chunk a retrieval returns belongs to the tenant the retrieval
\* was made for, also when the chat endpoint retrieves through
\* /api/rag-retrieve.
C1_ResultsBelongToTenant ==
    request.via # "none" =>
        \A i \in 1..Len(result) : result[i].user_id = request.scope

\* C2: the thread never holds more than MAX_MESSAGES messages, from the
\* construction of the manager on.
C2_AtMostMaxMessages == Len(thread.messages) <= MAX_MESSAGES

\* C3: a thread that started empty holds exactly the last
\* min(n, MAX_MESSAGES) of the n messages appended to it, in append order.
C3_HistoryIsLastAppended ==
    base = <<>> =>
        getMessages = SubSeq(appended,
                             Len(appended) - Min(Len(appended), MAX_MESSAGES) + 1,
                             Len(appended))

\* More than MAX_MESSAGES messages were appended to a thread that started
\* empty: the oldest ones have been evicted.
C3_Witness == base = <<>> /\ Len(appended) > MAX_MESSAGES + 1

\* C4: whatever batches fail, the embeddings returned and the failed
\* chunk refs returned together count every input chunk once.
C4_EveryChunkAccounted ==
    embResult.returned =>
        Len(ReturnedEmbeddings(embResult)) + Len(ReturnedFailedChunkRefs(embResult))
            = Len(chunks)

\* The starts of the batches of the document: 0, batchSize, ...
BatchStarts == {i \in 0..Len(chunks) - 1 : i % batchSize = 0}
SentOk == {sent[k].start : k \in {j \in 1..Len(sent) : sent[j].ok}}
SentFailed == {sent[k].start : k \in {j \in 1..Len(sent) : ~sent[j].ok}}

\* C5: when the provider fails for a batch, the remaining batches are
\* still sent and the embeddings of the batches that succeeded are kept
\* for the document.
C5_FailedBatchDoesNotAbort ==
    (procPc = "done" /\ SentFailed # {}) =>
        /\ \A i \in BatchStarts : \E k \in 1..Len(sent) : sent[k].start = i
        /\ {docRows[k].chunk_id : k \in 1..Len(docRows)}
              = UNION {{c \in 1..Len(chunks) : i < c /\ c <= i + batchSize} : i \in SentOk}

\* The rows of the request's scope whose similarity to the query is above
\* the request's threshold.
Eligible ==
    {pc \in Rows(TableAtRequest) :
        /\ pc.user_id = request.scope
        /\ pc.embedding # NULL
        /\ SimilarityAbove(pc.embedding, request.query, request.threshold)}

\* C6: the scoped search returns rows of the scope above the threshold
\* only, none twice, by descending similarity, as many as top_k allows,
\* and no row left out is more similar than a row returned; with no row
\* above the threshold it returns the empty list.
C6_ScopedSearchResult ==
    request.via = "match_user_pdf_chunks" =>
        /\ \A i \in 1..Len(result) : result[i] \in Eligible
        /\ \A i, j \in 1..Len(result) : i # j => result[i].id # result[j].id
        /\ \A i, j \in 1..Len(result) :
              i < j => ~Closer(result[j].embedding, result[i].embedding, request.query)
        /\ Len(result) = Min(request.top_k, Cardinality(Eligible))
        /\ \A pc \in Eligible \ Rows(result) : \A i \in 1..Len(result) :
              ~Closer(pc.embedding, result[i].embedding, request.query)
        /\ (Eligible = {} => result = <<>>)

\* A scoped search that found more rows above the threshold than top_k
\* and returned the top_k most similar.
C6_Witness ==
    /\ request.via = "match_user_pdf_chunks"
    /\ result # <<>>
    /\ Len(result) < Cardinality(Eligible)

\* C7: the message list built for a request never exceeds the token
\* budget.
C7_WithinTokenBudget ==
    messages # <<>> => TotalTokens(messages) <= MAX_TOKENS

\* C8: the message list starts with the system prompt and ends with one
\* user message made of the user instruction, the retrieved chunks, each
\* with its 1-based index and its source, in retrieval order, and the
\* query.
C8_SystemFirstPromptLast ==
    messages # <<>> =>
        LET last == messages[Len(messages)]
            n == Len(chatIn.chunks)
        IN  /\ Len(messages) >= 2
            /\ messages[1] = [role |-> "system", content |-> <<chatIn.systemPrompt>>]
            /\ last.role = "user"
            /\ Len(last.content) = n + 4
            /\ last.content[1] = chatIn.userInstruction
            /\ \A k \in 1..n :
                  /\ last.content[k + 2].kind = "chunk"
                  /\ last.content[k + 2].index = k
                  /\ last.content[k + 2].source = chatIn.chunks[k].filename
                  /\ last.content[k + 2].text = chatIn.chunks[k].chunk_text
            /\ last.content[n + 4] = chatIn.query

\* A message list built from a history longer than the handler keeps and
\* from several chunks.
C8_Witness ==
    /\ messages # <<>>
    /\ Len(chatIn.history) > HISTORY_LIMIT
    /\ Len(chatIn.chunks) >= 2

\* C9: when the stream has completed, the final text is the concatenation
\* of all the deltas the backend emitted, each once and in order.
C9_FinalTextIsAllDeltas ==
    (backend = "ended" /\ outcome # NoOutcome /\ ~outcome.failed) =>
        outcome.content = emitted

\* C10: when the backend fails after some deltas, nothing more is
\* forwarded, the caller learns that the stream failed, and the text
\* captured is the deltas forwarded before the failure.
C10_StreamFailureReported ==
    (backend = "errored" /\ written # <<>> /\ outcome # NoOutcome) =>
        /\ outcome.failed
        /\ fullText = written

\* C13: every chunk chunkText returns has at least one token and at most
\* chunkSize tokens, and every token of the text is in some chunk: the
\* short last window is kept and no empty chunk is produced.
C13_ChunkSizes ==
    (chunkIn.present /\ chunkIn.done) =>
        /\ \A k \in 1..Len(chunkOut) :
              /\ chunkOut[k] # <<>>
              /\ Len(Tokens(chunkOut[k])) >= 1
              /\ Len(Tokens(chunkOut[k])) <= chunkIn.chunkSize
        /\ \A t \in 1..chunkIn.words :
              \E k \in 1..Len(chunkOut) :
                 \E j \in 1..Len(chunkOut[k]) : chunkOut[k][j] = t

\* A call whose last chunk is shorter than chunkSize, on a text that ends
\* with whitespace (its last window holds only the empty last piece).
C13_Witness ==
    /\ chunkIn.present /\ chunkIn.done
    /\ chunkIn.text # <<>> /\ chunkIn.text[Len(chunkIn.text)] = SPACE
    /\ chunkIn.overlap = 0
    /\ chunkIn.words > chunkIn.chunkSize
    /\ chunkIn.words % chunkIn.chunkSize = 0
    /\ Len(chunkOut) * chunkIn.chunkSize = chunkIn.words

\* C14: the last `overlap` tokens of a chunk are the first `overlap` tokens
\* of the chunk after it.
C14_AdjacentChunksOverlap ==
    (chunkIn.present /\ chunkIn.done) =>
        \A k \in 1..(Len(chunkOut) - 1) :
           LastN(Tokens(chunkOut[k]), chunkIn.overlap)
              = SubSeq(Tokens(chunkOut[k + 1]), 1,
                       Min(chunkIn.overlap, Len(Tokens(chunkOut[k + 1]))))

\* C15: the window that reaches the last token is the last chunk, so no
\* chunk holds only tokens of the chunk before it; ten words with
\* chunkSize 4 and overlap 1 give the three chunks 1-4, 4-7, 7-10.
C15_NoRedundantLastChunk ==
    (chunkIn.present /\ chunkIn.done) =>
        /\ \A k \in 2..Len(chunkOut) :
              \E j \in 1..Len(chunkOut[k]) :
                 /\ chunkOut[k][j] # SPACE
                 /\ \A i \in 1..Len(chunkOut[k - 1]) : chunkOut[k - 1][i] # chunkOut[k][j]
        /\ (chunkIn.text = TextOf(FALSE, 10, FALSE) /\ chunkIn.chunkSize = 4 /\ chunkIn.overlap = 1)
              => chunkOut = << <<1, SPACE, 2, SPACE, 3, SPACE, 4>>,
                               <<4, SPACE, 5, SPACE, 6, SPACE, 7>>,
                               <<7, SPACE, 8, SPACE, 9, SPACE, 10>> >>

\* A stored value that is a thread: an object with a messages array whose
\* entries are {role, content, timestamp} objects.
WellFormedThread(s) ==
    /\ s.kind = "thread"
    /\ \A k \in 1..Len(s.messages) : DOMAIN s.messages[k] = {"role", "content", "timestamp"}

\* C17: when the stored value is not a well-formed thread, the manager
\* starts (clock = 1: nothing has been done yet) with a fresh empty thread.
C17_MalformedStateDiscarded ==
    (clock = 1 /\ ~WellFormedThread(stored)) =>
        /\ thread.messages = <<>>
        /\ thread.id = generateThreadId(1)

\* C18: a manager writes its own in-memory thread over whatever is stored,
\* so once both tabs have appended, the persisted thread is a thread
\* written by the tab that wrote last and lacks every message the other
\* tab appended (a lost update).
C18_LostUpdate ==
    \A w \in Tabs : \A o \in Tabs \ {w} :
       (lastWriter = w /\ tabAppended[o] # <<>>) =>
           /\ shared.kind = "thread" /\ shared.id = tabs[w].id
           /\ \A k \in 1..Len(tabAppended[o]) :
                 \A j \in 1..Len(shared.messages) : shared.messages[j] # tabAppended[o][k]

\* Both tabs have appended, and the persisted thread holds the messages of
\* one of them only.
C18_Witness ==
    /\ lastWriter = 2
    /\ Len(tabAppended[1]) = 1
    /\ Len(tabAppended[2]) = 1
    /\ shared.messages = <<TabMessage(2, 1)>>

\* C11: processing_status is pending when the record is created and only
\* ever changes from pending to processing and from processing to
\* completed or failed.
C11_StatusLifecycle ==
    [][/\ procPc = "idle" => docStatus = "pending"
       /\ docStatus' # docStatus =>
             <<docStatus, docStatus'>> \in {<<"pending", "processing">>,
                                            <<"processing", "completed">>,
                                            <<"processing", "failed">>}]_vars

\* C12: once the ingestion run of a document has ended, or has failed to
\* start, the document is completed or failed.
C12_OutcomeRecorded ==
    procPc \in {"notstarted", "done"} => docStatus \in {"completed", "failed"}

\* C16: when the extraction succeeds with zero chunks, the run ends with
\* the document marked failed.
C16_NoTextMarkedFailed ==
    (procPc = "done" /\ embResult.returned /\ chunks = <<>>) => docStatus = "failed"

\* The provider calls made for the batch that starts at i.
Attempts(i) == {k \in 1..Len(sent) : sent[k].start = i}

\* C19: a batch for which a provider call failed was sent to the provider
\* again before generateEmbeddings gave it up.
C19_FailedBatchRetried ==
    embResult.returned =>
        \A k \in 1..Len(sent) : ~sent[k].ok => Cardinality(Attempts(sent[k].start)) >= 2

\* C20: the provider calls are the batches 0, batchSize, ... in input
\* order; a successful call returns one embedding per chunk in the order of
\* the chunks, each with the chunk whose text produced it, and so are the
\* rows stored.
C20_OrderAndCorrelation ==
    /\ \A k \in 1..Len(sent) : sent[k].start = (k - 1) * batchSize
    /\ (embResult.returned /\ embResult.success) =>
          /\ Len(embResult.embeddings) = Len(chunks)
          /\ \A k \in 1..Len(chunks) :
                /\ embResult.embeddings[k].chunk = chunks[k]
                /\ embResult.embeddings[k].embedding = EmbeddingOf(chunks[k])
    /\ \A k \in 1..Len(docRows) : docRows[k].embedding = EmbeddingOf(docRows[k].chunk_id)

\* Two embeddings at the same distance from the query.
SameSimilarity(a, b, q) == ~Closer(a, b, q) /\ ~Closer(b, a, q)

\* C24: of two rows with the same similarity to the query the one stored
\* earlier (the smaller id) is ranked first, and it is the one returned
\* when the limit lets only one of them through.
C24_TiesByInsertionOrder ==
    request.via = "match_user_pdf_chunks" =>
        /\ \A i, j \in 1..Len(result) :
              (i < j /\ SameSimilarity(result[i].embedding, result[j].embedding, request.query))
                 => result[i].id < result[j].id
        /\ \A pc \in Eligible \ Rows(result) : \A i \in 1..Len(result) :
              SameSimilarity(pc.embedding, result[i].embedding, request.query)
                 => result[i].id < pc.id

\* C21: once the caller has cancelled, the relay handles no further data
\* of the backend (and so forwards no further delta).
C21_NoRelayAfterCancel ==
    [][cancelled => handled' = handled]_vars

\* C26: when the chat request fails (the endpoint answers 500, or the
\* stream breaks), the assistant message the client appends is the error
\* notice, not the error body or the text read so far.
C26_FailureShownAsNotice ==
    (backend \in {"refused", "errored"} /\ outcome # NoOutcome) => outcome.failed

\* C23: the history placed in the prompt is the context window, the last
\* MAX_CONTEXT_MESSAGES messages of the thread in thread order, all of
\* them between the system prompt and the final user message.
C23_HistoryIsContextWindow ==
    messages # <<>> =>
        SubSeq(messages, 2, Len(messages) - 1)
            = prepareConversationHistory(LastN(chatIn.thread, MAX_CONTEXT_MESSAGES))

\* The part p of a message's content is the text of the current query.
IsCurrentQuery(p) == p.kind = "query" /\ p = chatIn.query

\* C28: the text of the current query is in the final user message and
\* in no other message of the list.
C28_QueryOnlyInFinalMessage ==
    messages # <<>> =>
        /\ \E j \in DOMAIN messages[Len(messages)].content :
              IsCurrentQuery(messages[Len(messages)].content[j])
        /\ \A k \in 1..(Len(messages) - 1) :
              \A j \in DOMAIN messages[k].content : ~IsCurrentQuery(messages[k].content[j])

\* C30: a save whose request supplies only user_instruction and
\* system_prompt leaves the stored chunk_size, overlap, max_results and
\* similarity_threshold as they were.
C30_InstructionSaveKeepsTunables ==
    [][(settingsRow # NoRow /\ DOMAIN settingsReq' = RequiredFields)
          => \A f \in TunableFields : settingsRow'[f] = settingsRow[f]]_vars

\* C27: chunkText terminates: while the loop runs, every iteration moves
\* its index forward (towards words.length, where it returns).
C27_LoopAdvances ==
    [][(loopPc = "looping" /\ loopPc' = "looping") => loopI' > loopI]_vars

\* What the step-by-step loop returns is what chunkText returns.
LoopAgreesWithChunkText ==
    (loopPc = "returned" /\ loopArgs.overlap < loopArgs.chunkSize) =>
        loopChunks = chunkLoop(loopArgs.words, 0, loopArgs.chunkSize, loopArgs.overlap, <<>>)

\* C29: the thread never holds a message of a conversation that preceded
\* a clear: every message belongs to the thread it is in.
C29_NoMessageOfAbandonedRequest ==
    \A k \in DOMAIN convThread.messages : convThread.messages[k].conv = convThread.id

\* C22: clearThread leaves an empty thread whose id is new (not the id
\* before the call nor any earlier id of the manager), and that thread is
\* what storage holds.  (Only clearThread takes a new id from nextId.)
C22_ClearGivesNewPersistedThread ==
    [][nextId' # nextId =>
          /\ thread'.messages = <<>>
          /\ thread'.id # thread.id
          /\ thread'.id \notin usedIds
          /\ stored' = saveThread(thread')]_vars

\* C25: after the manager has performed operations, a manager constructed
\* from the same storage (with a new threadId of its own) holds the same
\* thread.
C25_ReloadGivesSameThread ==
    clock > 1 => loadThread(stored, generateThreadId(nextId)) = thread
====
